---- MODULE Spec2Model ----
(***************************************************************************)
(* Model of clippy_lints/src/methods/unnecessary_indexing.rs:              *)
(*   check            -- the lint entry point, one call per method call    *)
(*   get_higher_if    -- ascent over the parents of the `is_empty` call    *)
(*   block_to_visit   -- the branch that runs when the receiver is not     *)
(*                       empty                                             *)
(*   the closure handed to for_each_expr_with_closures (the scan)          *)
(*   make_suggestion  -- the three suggestion strings                      *)
(*                                                                         *)
(* An Option<T> is a sequence of length at most one: None is <<>> and      *)
(* Some(x) is <<x>>.  A block is the sequence of its expressions in the    *)
(* order for_each_expr_with_closures hands them to the closure (pre-order, *)
(* bodies of nested closures included).  Source text is a sequence of      *)
(* tokens.                                                                 *)
(***************************************************************************)
EXTENDS Naturals, Sequences

\* Largest number of expressions in the two branches of the `if` together.
MaxExprs == 2
\* Largest number of parents the ascent of get_higher_if looks at.
MaxDepth == 4

None == <<>>
Some(x) == <<x>>

(***************************************************************************)
(* The expression tree.                                                    *)
(***************************************************************************)

\* Index expressions: the literal 0, the literal 1, a variable, and a
\* constant of a signed type.
Brackets == {"0", "1", "i", "0i32"}

\* ExprKind::Index(seq, bracket, _)
Index(seq, bracket) == [kind |-> "Index", seq |-> seq, bracket |-> bracket]

\* Any expression that is no index expression.
Other == [kind |-> "Other", seq |-> "", bracket |-> ""]

\* The expressions a branch is made of.  The bases of the index expressions
\* are the local `v`, another local `w`, and `f`, an expression that is no
\* path to a local (a field access, say).
BlockExprs ==
  {Index("v", b) : b \in Brackets} \cup {Index("w", "0"), Index("f", "0"), Other}

RECURSIVE SeqsUpTo(_, _)
\* All sequences over S of length at most n.
SeqsUpTo(S, n) ==
  IF n = 0 THEN {<<>>}
  ELSE LET shorter == SeqsUpTo(S, n - 1)
       IN  shorter \cup {Append(s, x) : s \in {t \in shorter : Len(t) = n - 1}, x \in S}

\* An expression of kind ExprKind::Block.
BlockExpr(stmts) == [kind |-> "Block", stmts |-> stmts]

\* An `else if ..`: the else expression is an `if`, not a block.
ElseIfExpr == [kind |-> "If", stmts |-> <<>>]

\* The else expressions that fit beside a then block of n expressions.
ElseExprs(n) ==
  {None, Some(ElseIfExpr)} \cup {Some(BlockExpr(b)) : b \in SeqsUpTo(BlockExprs, MaxExprs - n)}

\* higher::If { cond, then, r#else }
HigherIfs ==
  UNION {{[then |-> BlockExpr(t), else |-> e] : e \in ElseExprs(Len(t))} :
           t \in SeqsUpTo(BlockExprs, MaxExprs)}

\* Kinds of the nodes parent_iter yields.  "Binary" stands for every
\* expression kind get_higher_if does not name; "Stmt" for a node that is
\* no expression.
NodeKinds == {"Not", "Binary", "Call", "MethodCall", "If", "Stmt"}

\* The receiver of the method call: a local, or no path to a local.
Receivers == {"v", "f"}

\* The method names check is called with.
MethodNames == {"is_empty", "len"}

(***************************************************************************)
(* Oracles of clippy_utils.                                                *)
(***************************************************************************)

\* path_to_local: the HirId of the local an expression names, if any.
path_to_local(e) == IF e \in {"v", "w"} THEN Some(e) ELSE None

\* consts::constant_full_int: the value an expression folds to, if any.
constant_full_int(bracket) ==
  CASE bracket = "0"    -> Some([sign |-> "U", val |-> 0])
    [] bracket = "1"    -> Some([sign |-> "U", val |-> 1])
    [] bracket = "0i32" -> Some([sign |-> "S", val |-> 0])
    [] OTHER            -> None

(***************************************************************************)
(* IfExprWithIsEmpty                                                       *)
(***************************************************************************)

\* new_with_not_op_count with the parity test the wrong way round.
new_with_not_op_count_odd(hif, count) ==
  [higher_if |-> hif, if_is_empty |-> (count % 2 = 1)]

\* IfExprWithIsEmpty::new_with_not_op_count
new_with_not_op_count(hif, count) ==
  [higher_if |-> hif, if_is_empty |-> (count % 2 = 0)]

\* The closure get_block_from_expr_opt of block_to_visit.
get_block_from_expr_opt(opt) ==
  IF opt # None /\ opt[1].kind = "Block" THEN Some(opt[1].stmts) ELSE None

\* IfExprWithIsEmpty::block_to_visit
block_to_visit(self) ==
  IF self.if_is_empty
  THEN get_block_from_expr_opt(self.higher_if.else)
  ELSE get_block_from_expr_opt(Some(self.higher_if.then))

(***************************************************************************)
(* The closure of check, called once per expression of the block.         *)
(***************************************************************************)

\* IndexOnReceiver without the comparison of the two locals (line 81).
IndexOnReceiver_any_local(ex, recv) ==
  /\ ex.kind = "Index"
  /\ path_to_local(ex.seq) # None
  /\ path_to_local(recv) # None
  /\ constant_full_int(ex.bracket) # None
  /\ constant_full_int(ex.bracket)[1].sign = "U"

\* The let chain of lines 79 to 83: the index expression is on the
\* receiver's local and its index folds to an unsigned value.
IndexOnReceiver(ex, recv) ==
  /\ ex.kind = "Index"
  /\ path_to_local(ex.seq) # None
  /\ path_to_local(recv) # None
  /\ path_to_local(ex.seq)[1] = path_to_local(recv)[1]
  /\ constant_full_int(ex.bracket) # None
  /\ constant_full_int(ex.bracket)[1].sign = "U"

\* visit_expr without the `return ControlFlow::Break(())` of line 90.
visit_expr_no_break(ex, at, recv, lint, spans) ==
  IF IndexOnReceiver(ex, recv)
  THEN IF constant_full_int(ex.bracket)[1].val = 0
       THEN [should_lint |-> TRUE, spans |-> Append(spans, at), flow |-> "Continue"]
       ELSE [should_lint |-> FALSE, spans |-> spans, flow |-> "Continue"]
  ELSE [should_lint |-> lint, spans |-> spans, flow |-> "Continue"]

\* One call of the closure on the expression `ex` at position `at`: the new
\* should_lint, the new spans_to_replace and the ControlFlow it returns.
visit_expr(ex, at, recv, lint, spans) ==
  IF IndexOnReceiver(ex, recv)
  THEN IF constant_full_int(ex.bracket)[1].val = 0
       THEN [should_lint |-> TRUE, spans |-> Append(spans, at), flow |-> "Continue"]
       ELSE [should_lint |-> FALSE, spans |-> spans, flow |-> "Break"]
  ELSE [should_lint |-> lint, spans |-> spans, flow |-> "Continue"]

(***************************************************************************)
(* get_higher_if: what the loop does with one parent node.                 *)
(***************************************************************************)

\* IsCallKind without ExprKind::MethodCall.
IsCallKind_only_call(kind) == kind = "Call"

\* The arm `ExprKind::MethodCall(..) | ExprKind::Call(..) => return None`.
IsCallKind(kind) == kind \in {"MethodCall", "Call"}

\* The arm `ExprKind::Unary(UnOp::Not, _) => not_op_count += 1`.
CountNot(kind, count) == IF kind = "Not" THEN count + 1 ELSE count

(***************************************************************************)
(* Source text.                                                            *)
(***************************************************************************)

\* The text of one expression of a block.
ExprText(ex) ==
  IF ex.kind = "Index" THEN <<ex.seq, "[", ex.bracket, "]", ";">> ELSE <<"e", ";">>

RECURSIVE StmtsText(_)
StmtsText(stmts) ==
  IF stmts = <<>> THEN <<>> ELSE ExprText(Head(stmts)) \o StmtsText(Tail(stmts))

\* snippet_with_applicability on the span of a block or of an `else if`.
snippet(ex) ==
  IF ex.kind = "Block" THEN <<"{">> \o StmtsText(ex.stmts) \o <<"}">>
  ELSE <<"if", "..">>

\* snippet_with_applicability on the span of the receiver.
snippet_receiver(recv) == <<recv>>

\* Does `pat` start the text `txt`?
StartsWith(txt, pat) ==
  Len(pat) <= Len(txt) /\ SubSeq(txt, 1, Len(pat)) = pat

RECURSIVE replace(_, _, _)
\* str::replace: every non-overlapping match of `pat`, left to right.
replace(txt, pat, to) ==
  IF txt = <<>> THEN <<>>
  ELSE IF StartsWith(txt, pat)
       THEN to \o replace(SubSeq(txt, Len(pat) + 1, Len(txt)), pat, to)
       ELSE <<Head(txt)>> \o replace(Tail(txt), pat, to)

\* format!("{caller}[0]")
IndexZeroText(caller) == caller \o <<"[", "0", "]">>

\* format!("let x = {caller}.first()")
CondSugg(caller) == <<"let", "x", "=">> \o caller \o <<".first()">>

\* make_suggestion without the swap of the two branches.
make_suggestion_unswapped(if_expr, recv) ==
  LET caller == snippet_receiver(recv)
      hif    == if_expr.higher_if
  IN  IF hif.else = None THEN None
      ELSE Some(<<CondSugg(caller),
                  replace(snippet(hif.then), IndexZeroText(caller), <<"x">>),
                  snippet(hif.else[1])>>)

\* make_suggestion
make_suggestion(if_expr, recv) ==
  LET caller == snippet_receiver(recv)
      hif    == if_expr.higher_if
  IN  IF hif.else = None THEN None
      ELSE IF if_expr.if_is_empty
           THEN Some(<<CondSugg(caller), snippet(hif.else[1]), snippet(hif.then)>>)
           ELSE Some(<<CondSugg(caller),
                       replace(snippet(hif.then), IndexZeroText(caller), <<"x">>),
                       snippet(hif.else[1])>>)

(***************************************************************************)
(* State.                                                                  *)
(***************************************************************************)

VARIABLES
  higher_if,         \* the `if` the ascent meets, if it meets one
  receiver,          \* the receiver of the method call
  method_name,       \* the method name check was called with
  pc,                \* where check is
  ancestors,         \* the parents parent_iter has yielded so far
  not_op_count,      \* local of get_higher_if
  parent_if,         \* Option<IfExprWithIsEmpty>: what get_higher_if returned
  block,             \* Option: the block being visited
  pos,               \* number of expressions the closure was called on
  should_lint,       \* local of check
  spans_to_replace,  \* local of check
  flow,              \* the ControlFlow the closure returned last
  reported,          \* span_lint_and_then was called in this run
  findings,          \* `reported` of every finished run, oldest first
  sugg               \* Option: what make_suggestion returned

vars ==
  <<higher_if, receiver, method_name, pc, ancestors, not_op_count, parent_if, block,
    pos, should_lint, spans_to_replace, flow, reported, findings, sugg>>

tree == <<higher_if, receiver>>

locals == <<not_op_count, parent_if, block, pos, should_lint, spans_to_replace, flow>>

Init ==
  /\ higher_if \in HigherIfs
  /\ receiver \in Receivers
  /\ method_name = "is_empty"
  /\ pc = "idle"
  /\ ancestors = <<>>
  /\ not_op_count = 0
  /\ parent_if = None
  /\ block = None
  /\ pos = 0
  /\ should_lint = FALSE
  /\ spans_to_replace = <<>>
  /\ flow = "Continue"
  /\ reported = FALSE
  /\ findings = <<>>
  /\ sugg = None

\* check returns: with a diagnostic (rep) or without.
Return(rep) ==
  /\ pc' = "done"
  /\ reported' = rep
  /\ findings' = Append(findings, rep)

\* The driver calls check on the method call, for the first time or again.
\* Line 68: any method but `is_empty` returns at once.
Check(m) ==
  /\ pc = "idle" \/ (pc = "done" /\ Len(findings) < 2)
  /\ method_name' = m
  /\ ancestors' = <<>>
  /\ not_op_count' = 0
  /\ parent_if' = None
  /\ block' = None
  /\ pos' = 0
  /\ should_lint' = FALSE
  /\ spans_to_replace' = <<>>
  /\ flow' = "Continue"
  /\ IF m = "is_empty"
     THEN pc' = "get_higher_if" /\ reported' = FALSE /\ UNCHANGED findings
     ELSE Return(FALSE)
  /\ UNCHANGED <<tree, sugg>>

\* parent_iter yields a node that is no expression: line 117 returns None.
AscendStmt ==
  /\ pc = "get_higher_if"
  /\ Len(ancestors) < MaxDepth
  /\ ancestors' = Append(ancestors, "Stmt")
  /\ Return(FALSE)
  /\ UNCHANGED <<tree, method_name, locals, sugg>>

\* parent_iter yields an `if`: lines 119 to 121 return the guard, line 70
\* takes its block, lines 72 and 73 start the scan.
AscendIf ==
  /\ pc = "get_higher_if"
  /\ Len(ancestors) < MaxDepth
  /\ ancestors' = Append(ancestors, "If")
  /\ LET guard == new_with_not_op_count(higher_if, not_op_count)
     IN  /\ parent_if' = Some(guard)
         /\ block' = block_to_visit(guard)
         /\ IF block_to_visit(guard) = None
            THEN Return(FALSE)
            ELSE pc' = "scan" /\ UNCHANGED <<reported, findings>>
  /\ should_lint' = FALSE
  /\ spans_to_replace' = <<>>
  /\ UNCHANGED <<tree, method_name, not_op_count, pos, flow, sugg>>

\* parent_iter yields a call: line 126 returns None.
AscendCall(kind) ==
  /\ pc = "get_higher_if"
  /\ Len(ancestors) < MaxDepth
  /\ IsCallKind(kind)
  /\ ancestors' = Append(ancestors, kind)
  /\ Return(FALSE)
  /\ UNCHANGED <<tree, method_name, locals, sugg>>

\* parent_iter yields any other expression: lines 124 and 127, and the loop
\* goes on.
AscendExpr(kind) ==
  /\ pc = "get_higher_if"
  /\ Len(ancestors) < MaxDepth
  /\ kind \notin {"If", "Stmt"}
  /\ ~IsCallKind(kind)
  /\ ancestors' = Append(ancestors, kind)
  /\ not_op_count' = CountNot(kind, not_op_count)
  /\ UNCHANGED <<tree, method_name, pc, parent_if, block, pos, should_lint,
                 spans_to_replace, flow, reported, findings, sugg>>

\* parent_iter is exhausted: line 130 returns None.
AscendRoot ==
  /\ pc = "get_higher_if"
  /\ Return(FALSE)
  /\ UNCHANGED <<tree, method_name, ancestors, locals, sugg>>

\* for_each_expr_with_closures calls the closure on the next expression.
ScanExpr ==
  /\ pc = "scan"
  /\ flow = "Continue"
  /\ pos < Len(block[1])
  /\ LET r == visit_expr(block[1][pos + 1], pos + 1, receiver, should_lint, spans_to_replace)
     IN  /\ should_lint' = r.should_lint
         /\ spans_to_replace' = r.spans
         /\ flow' = r.flow
  /\ pos' = pos + 1
  /\ UNCHANGED <<tree, method_name, pc, ancestors, not_op_count, parent_if, block,
                 reported, findings, sugg>>

\* The traversal is over (the block is exhausted, or the closure broke):
\* lines 99 to 109.
Report ==
  /\ pc = "scan"
  /\ flow = "Break" \/ pos = Len(block[1])
  /\ Return(should_lint)
  /\ UNCHANGED <<tree, method_name, ancestors, locals, sugg>>

Next ==
  \/ \E m \in MethodNames : Check(m)
  \/ AscendStmt
  \/ AscendIf
  \/ \E kind \in NodeKinds : AscendCall(kind)
  \/ \E kind \in NodeKinds : AscendExpr(kind)
  \/ AscendRoot
  \/ ScanExpr
  \/ Report

Spec == Init /\ [][Next]_vars

(***************************************************************************)
(* make_suggestion on its own: check never calls it.                       *)
(***************************************************************************)

SuggInit ==
  /\ higher_if \in HigherIfs
  /\ receiver \in Receivers
  /\ method_name = "is_empty"
  /\ pc = "make_suggestion"
  /\ ancestors = <<>>
  /\ not_op_count \in 0 .. MaxDepth
  /\ parent_if = Some(new_with_not_op_count(higher_if, not_op_count))
  /\ block = None
  /\ pos = 0
  /\ should_lint = FALSE
  /\ spans_to_replace = <<>>
  /\ flow = "Continue"
  /\ reported = FALSE
  /\ findings = <<>>
  /\ sugg = None

MakeSuggestion ==
  /\ pc = "make_suggestion"
  /\ sugg' = make_suggestion(parent_if[1], receiver)
  /\ pc' = "suggested"
  /\ UNCHANGED <<tree, method_name, ancestors, locals, reported, findings>>

SuggNext == MakeSuggestion

SuggSpec == SuggInit /\ [][SuggNext]_vars

(***************************************************************************)
(* Properties.                                                             *)
(***************************************************************************)

\* An index expression whose base is the local the receiver names.
OnReceiverLocal(ex) ==
  /\ ex.kind = "Index"
  /\ path_to_local(ex.seq) # None
  /\ path_to_local(receiver) # None
  /\ path_to_local(ex.seq) = path_to_local(receiver)

\* The index of `ex` folds to the unsigned value n.
FoldsToUnsigned(ex, n) ==
  constant_full_int(ex.bracket) = Some([sign |-> "U", val |-> n])

\* The index of `ex` folds to an unsigned value other than 0.
FoldsToNonzero(ex) ==
  /\ constant_full_int(ex.bracket) # None
  /\ constant_full_int(ex.bracket)[1].sign = "U"
  /\ constant_full_int(ex.bracket)[1].val # 0

\* A `receiver[0]`: on the receiver's local, the index folding to unsigned 0.
Qualifying(ex) == OnReceiverLocal(ex) /\ FoldsToUnsigned(ex, 0)

\* The number of Unary-Not nodes among the first n parents the ascent met.
RECURSIVE NotsAmong(_)
NotsAmong(nodes) ==
  IF nodes = <<>> THEN 0
  ELSE (IF Head(nodes) = "Not" THEN 1 ELSE 0) + NotsAmong(Tail(nodes))

\* The ascent met node `i` before it met any conditional.
BeforeAnyIf(i) == \A j \in 1 .. (i - 1) : ancestors[j] # "If"

\* The positions of the scanned block with a nonzero access on the receiver.
NonzeroAt ==
  IF block = None THEN {}
  ELSE {i \in 1 .. Len(block[1]) : OnReceiverLocal(block[1][i]) /\ FoldsToNonzero(block[1][i])}

\* The text `txt` contains `pat`.
Contains(txt, pat) ==
  \E i \in 1 .. Len(txt) : StartsWith(SubSeq(txt, i, Len(txt)), pat)

\* C1 (as claimed): whenever check reports a diagnostic, every index access
\* of the scanned branch on the receiver's local has an index that folds to
\* the unsigned value 0.
C1_Soundness ==
  (pc = "done" /\ reported) =>
    \A i \in 1 .. Len(block[1]) :
      OnReceiverLocal(block[1][i]) => FoldsToUnsigned(block[1][i], 0)

\* C2 (as claimed): when the conditional the ascent met has no else block,
\* check reports no diagnostic, whether the sense is "is non-empty" (odd
\* number of negations) or "is empty".
C2_MissingBranchAbort ==
  (pc = "done" /\ parent_if # None /\ higher_if.else = None) => ~reported

\* C3: with k the number of Unary-Not nodes met on the way up to the
\* conditional, the guard's if_is_empty is true iff k is even; the else
\* block is the one scanned when k is even, the then block when k is odd.
C3_NegationParity ==
  parent_if # None =>
    LET k == NotsAmong(ancestors)
    IN  /\ parent_if[1].if_is_empty <=> (k % 2 = 0)
        /\ (k % 2 = 0 /\ block # None) =>
             (higher_if.else # None /\ block[1] = higher_if.else[1].stmts)
        /\ (k % 2 = 1) => block = Some(higher_if.then.stmts)

C3_Witness ==
  /\ pc = "done"
  /\ ancestors = <<"Not", "Not", "If">>
  /\ block # None
  /\ pos = 1
  /\ reported

\* C4: if the ascent meets a call or a node that is no expression before
\* any conditional, or runs out of parents without meeting a conditional,
\* there is no guard and no diagnostic, whatever the branches contain.
C4_CallAbort ==
  /\ (\E i \in 1 .. Len(ancestors) :
        ancestors[i] \in {"Call", "MethodCall", "Stmt"} /\ BeforeAnyIf(i))
       => (parent_if = None /\ block = None /\ ~reported)
  /\ (pc = "done" /\ BeforeAnyIf(Len(ancestors) + 1))
       => (parent_if = None /\ block = None /\ ~reported)

C4_Witness ==
  /\ pc = "done"
  /\ ancestors = <<"Not", "MethodCall">>
  /\ receiver = "v"
  /\ higher_if.then.stmts = <<Index("v", "0")>>
  /\ ~reported

\* C5: when the guard's sense is "is empty" the new then-text is the text of
\* the original else and the new else-text the text of the original then;
\* when it is "is non-empty" the new then-text comes from the original then
\* (with receiver[0] replaced) and the new else-text is the original else.
C5_BranchSwap ==
  (pc = "suggested" /\ sugg # None) =>
    IF parent_if[1].if_is_empty
    THEN /\ sugg[1][2] = snippet(higher_if.else[1])
         /\ sugg[1][3] = snippet(higher_if.then)
    ELSE /\ sugg[1][2] = replace(snippet(higher_if.then), <<receiver, "[", "0", "]">>, <<"x">>)
         /\ sugg[1][3] = snippet(higher_if.else[1])

C5_Witness ==
  /\ pc = "suggested"
  /\ sugg # None
  /\ parent_if[1].if_is_empty
  /\ higher_if.then.stmts = <<Other>>
  /\ higher_if.else = Some(BlockExpr(<<Index("v", "0")>>))

\* C6: a run of check that scanned a branch with no `receiver[0]` in it
\* reports nothing, in the first run and in the second; on a tree neither
\* branch of which has a `receiver[0]`, no run reports anything.
C6_NoCandidate ==
  /\ (pc = "done" /\ block # None
        /\ \A i \in 1 .. Len(block[1]) : ~Qualifying(block[1][i]))
       => ~reported
  /\ ((\A i \in 1 .. Len(higher_if.then.stmts) : ~Qualifying(higher_if.then.stmts[i]))
        /\ (\A e \in {higher_if.else[j] : j \in 1 .. Len(higher_if.else)} :
              \A i \in 1 .. Len(e.stmts) : ~Qualifying(e.stmts[i])))
       => \A r \in 1 .. Len(findings) : ~findings[r]

C6_Witness ==
  /\ pc = "done"
  /\ findings = <<FALSE, FALSE>>
  /\ receiver = "v"
  /\ block = Some(<<Index("w", "0"), Index("v", "i")>>)
  /\ pos = 2

\* C7 (as claimed): get_higher_if returns a guard only if every node between
\* the is_empty call and the conditional is a Unary-Not.
C7_GuardValidity ==
  parent_if # None =>
    \A i \in 1 .. (Len(ancestors) - 1) : ancestors[i] = "Not"

\* C8: when the scanned block has a receiver access whose index folds to a
\* nonzero unsigned value, the scan never goes past the first of them, it
\* ends there with should_lint false, and check reports nothing.
C8_EarlyStop ==
  NonzeroAt # {} =>
    LET first == CHOOSE i \in NonzeroAt : \A j \in NonzeroAt : i <= j
    IN  /\ pos <= first
        /\ pos = first => (flow = "Break" /\ ~should_lint)
        /\ pc = "done" => (pos = first /\ ~reported)

C8_Witness ==
  /\ pc = "done"
  /\ receiver = "v"
  /\ block = Some(<<Index("v", "1"), Index("v", "0")>>)
  /\ pos = 1
  /\ ~reported

\* C9 (as claimed): for both senses of the guard, no `receiver[0]` is left
\* in the new then-text.
C9_Substitution ==
  (pc = "suggested" /\ sugg # None) =>
    ~Contains(sugg[1][2], <<receiver, "[", "0", "]">>)

\* C10 (as claimed): a diagnostic is reported only when make_suggestion
\* succeeds on the guard.
C10_PipelineOrder ==
  (pc = "done" /\ reported) => make_suggestion(parent_if[1], receiver) # None

====
